---- MODULE Spec2Model ----
(***************************************************************************)
(* Model of the /process handler of api/app.py (PMD-Lookup): two uploaded  *)
(* tables, the Central file (reference) and the PMD Lookup file            *)
(* (candidates), are filtered, normalised, keyed, merged, classified       *)
(* (New / Hold / ignored) and projected onto a fixed column list.          *)
(*                                                                         *)
(* A DataFrame is a record [columns, index, rows]: the ordered column      *)
(* names, the index label of every row and the rows, each a function from  *)
(* the column names to cells.  A cell is a tagged record: a missing value  *)
(* (NaN / NaT / None), a string (a sequence of characters) or a timestamp. *)
(***************************************************************************)
EXTENDS Integers, Sequences, FiniteSets, TLC

VARIABLES
    central_file,     \* the uploaded Central table, as read (never changed)
    pmd_lookup_file,  \* the uploaded PMD Lookup table, as read (never changed)
    central_df,       \* working copy of the Central table
    pmd_df,           \* working copy of the PMD Lookup table
    merged_df,        \* result of pd.merge
    left_index,       \* per merged row: index label of the pmd_df row it joins
    right_index,      \* per merged row: index label of the central_df row, 0 if none
    final_output_df,  \* the classified / projected table
    response,         \* what the handler returns
    pc                \* position inside process_files

vars == <<central_file, pmd_lookup_file, central_df, pmd_df, merged_df,
          left_index, right_index, final_output_df, response, pc>>

(***************************************************************************)
(* Bounds of the model.                                                    *)
(***************************************************************************)
MaxCentralRows == 2
MaxPmdRows == 2

(***************************************************************************)
(* Cells.                                                                  *)
(***************************************************************************)
NaN == [t |-> "nan"]
Str(s) == [t |-> "str", s |-> s]
Ts(d, h) == [t |-> "ts", d |-> d, h |-> h]

isna(v) == v.t = "nan"
notna(v) == ~isna(v)
isinstance_str(v) == v.t = "str"

LowerChar(c) ==
    CASE c = "A" -> "a" [] c = "P" -> "p" [] c = "H" -> "h" [] c = "N" -> "n"
      [] c = "R" -> "r" [] c = "O" -> "o" [] c = "V" -> "v" [] c = "E" -> "e"
      [] c = "D" -> "d" [] OTHER -> c

lower(s) == [i \in 1..Len(s) |-> LowerChar(s[i])]

Digit(n) == <<"0", "1", "2", "3", "4", "5", "6", "7", "8", "9">>[n + 1]
TwoDigits(n) == <<Digit(n \div 10), Digit(n % 10)>>

\* strftime('%Y-%m-%d'): the timestamps of the model lie in January 2024
strftime_date(ts) ==
    <<"2", "0", "2", "4", "-", "0", "1", "-">> \o TwoDigits(ts.d)

\* strftime('%Y-%m-%d %I:%M %p')
strftime_display(ts) ==
    strftime_date(ts) \o <<" ">>
        \o TwoDigits(IF ts.h % 12 = 0 THEN 12 ELSE ts.h % 12)
        \o <<":", "0", "0", " ">>
        \o (IF ts.h < 12 THEN <<"A", "M">> ELSE <<"P", "M">>)

\* pd.to_datetime(..., errors='coerce')
to_datetime(v) == IF v.t = "ts" THEN v ELSE NaN

\* .astype(str) on a present supplier name
astype_str(v) == IF v.t = "str" THEN v.s ELSE strftime_display(v)

(***************************************************************************)
(* DataFrames.                                                             *)
(***************************************************************************)
Range(s) == {s[i] : i \in 1..Len(s)}
NoFrame == [columns |-> <<>>, index |-> <<>>, rows |-> <<>>]
NRows(df) == Len(df.rows)
Cols(df) == Range(df.columns)

\* the positions at which a boolean Series is True, in order
Positions(mask) ==
    LET n == Len(mask)
        F[i \in 0..n] ==
            IF i = 0 THEN <<>>
            ELSE IF mask[i] THEN Append(F[i - 1], i) ELSE F[i - 1]
    IN F[n]

\* df[mask]: the rows where the boolean Series is True, with their index labels
KeepRows(df, mask) ==
    LET pos == Positions(mask)
    IN [columns |-> df.columns,
        index |-> [k \in 1..Len(pos) |-> df.index[pos[k]]],
        rows |-> [k \in 1..Len(pos) |-> df.rows[pos[k]]]]

\* df.drop(columns=[c for c in names if c in df.columns])
DropColumns(df, names) ==
    LET keep == Cols(df) \ names
    IN [columns |-> SelectSeq(df.columns, LAMBDA c : c \notin names),
        index |-> df.index,
        rows |-> [k \in 1..NRows(df) |-> [c \in keep |-> df.rows[k][c]]]]

\* df[name] = values: an existing column is overwritten in place, a new one
\* is appended
SetColumn(df, name, values) ==
    [columns |-> IF name \in Cols(df) THEN df.columns ELSE Append(df.columns, name),
     index |-> df.index,
     rows |-> [k \in 1..NRows(df) |->
                 [c \in Cols(df) \cup {name} |->
                     IF c = name THEN values[k] ELSE df.rows[k][c]]]]

\* SelectColumns that keeps the order of the frame's own columns
SelectColumnsInputOrder(df, order) ==
    LET cols == SelectSeq(df.columns, LAMBDA c : c \in Range(order))
    IN [columns |-> cols,
        index |-> df.index,
        rows |-> [k \in 1..NRows(df) |-> [c \in Range(cols) |-> df.rows[k][c]]]]

\* df[[c for c in order if c in df.columns]]
SelectColumns(df, order) ==
    LET cols == SelectSeq(order, LAMBDA c : c \in Cols(df))
    IN [columns |-> cols,
        index |-> df.index,
        rows |-> [k \in 1..NRows(df) |-> [c \in Range(cols) |-> df.rows[k][c]]]]

\* df.dropna(subset=...)
dropna(df, subset) ==
    KeepRows(df, [k \in 1..NRows(df) |-> \A c \in subset : notna(df.rows[k][c])])

(***************************************************************************)
(* Configuration of process_files.                                         *)
(***************************************************************************)
cols_to_drop == {"Sl. No.", "DUNS"}

countries_to_exclude ==
    {<<"C", "N">>, <<"I", "D">>, <<"T", "W">>, <<"H", "K">>, <<"J", "P">>,
     <<"K", "R">>, <<"M", "Y">>, <<"P", "H">>, <<"S", "G">>, <<"T", "H">>,
     <<"V", "N">>}

\* the required Central columns without 'Assigned To'
required_central_cols_without_assignee ==
    {"Valid From", "Supplier Name", "Status"}

required_central_cols_for_check ==
    {"Valid From", "Supplier Name", "Status", "Assigned To"}
required_pmd_cols_for_check == {"Valid From", "Supplier Name"}

output_required_cols ==
    <<"Valid From", "Bukr.", "Type", "EBSNO", "Supplier Name", "Street",
      "City", "Country", "Zip Code", "Requested By", "Pur. approver",
      "Pur. release date", "Status", "Assigned To">>

columns_to_drop_after_status_calc ==
    {"comp_key", "Valid From_dt", "Valid From_dt_pmd", "Valid From_dt_central",
     "Status_central", "Assigned To_central", "final_status", "final_assigned_to"}

(***************************************************************************)
(* The steps of process_files.                                             *)
(***************************************************************************)
\* Series.isin(countries_to_exclude)
isin(v, values) == v.t = "str" /\ v.s \in values

\* CountryFilter that removes nothing
CountryFilterOff(df) == df

\* pmd_df[~pmd_df['Country'].isin(countries_to_exclude)], if there is a Country
CountryFilter(df) ==
    IF "Country" \in Cols(df)
    THEN KeepRows(df, [k \in 1..NRows(df) |->
                         ~isin(df.rows[k]["Country"], countries_to_exclude)])
    ELSE df

\* HasColumns with any() in place of all()
HasColumnsAny(df, required) == \E col \in required : col \in Cols(df)

\* all(col in df.columns for col in required)
HasColumns(df, required) == \A col \in required : col \in Cols(df)

\* df['Valid From_dt'] = pd.to_datetime(df['Valid From'], errors='coerce')
WithValidFromDt(df) ==
    SetColumn(df, "Valid From_dt",
              [k \in 1..NRows(df) |-> to_datetime(df.rows[k]["Valid From"])])

\* comp_key built from the full timestamp instead of the date
comp_key_with_time(valid_from_dt, supplier_name) ==
    Str(strftime_display(valid_from_dt) \o <<"_", "_">> \o astype_str(supplier_name))

\* strftime('%Y-%m-%d') + '__' + astype(str)
comp_key(valid_from_dt, supplier_name) ==
    Str(strftime_date(valid_from_dt) \o <<"_", "_">> \o astype_str(supplier_name))

WithCompKey(df) ==
    SetColumn(df, "comp_key",
              [k \in 1..NRows(df) |->
                  comp_key(df.rows[k]["Valid From_dt"], df.rows[k]["Supplier Name"])])

NormalizeCentral(df) ==
    WithCompKey(dropna(WithValidFromDt(df),
                       {"Valid From_dt", "Supplier Name", "Status", "Assigned To"}))

NormalizePmd(df) ==
    WithCompKey(dropna(WithValidFromDt(df), {"Valid From_dt", "Supplier Name"}))

\* MergePairs of an inner join: a left row without a partner is lost
MergePairsInner(left, right) ==
    LET n == NRows(left)
        Partners(i) ==
            Positions([j \in 1..NRows(right) |->
                          right.rows[j]["comp_key"] = left.rows[i]["comp_key"]])
        PairsOf(i) == [k \in 1..Len(Partners(i)) |-> <<i, Partners(i)[k]>>]
        F[i \in 0..n] == IF i = 0 THEN <<>> ELSE F[i - 1] \o PairsOf(i)
    IN F[n]

\* pd.merge(left, right, on='comp_key', how='left'): the pairs (left position,
\* right position) of the joined rows, in the order of the left rows; a left
\* row without a partner is paired with 0
MergePairs(left, right) ==
    LET n == NRows(left)
        Partners(i) ==
            Positions([j \in 1..NRows(right) |->
                          right.rows[j]["comp_key"] = left.rows[i]["comp_key"]])
        PairsOf(i) ==
            IF Partners(i) = <<>> THEN << <<i, 0>> >>
            ELSE [k \in 1..Len(Partners(i)) |-> <<i, Partners(i)[k]>>]
        F[i \in 0..n] == IF i = 0 THEN <<>> ELSE F[i - 1] \o PairsOf(i)
    IN F[n]

\* the merged frame: the columns of the left frame, then Status_central and
\* Assigned To_central (NaN where the left row has no partner); fresh index 1..n
Merge(left, right) ==
    LET pairs == MergePairs(left, right)
        brought == <<"Status_central", "Assigned To_central">>
        From(c) == IF c = "Status_central" THEN "Status" ELSE "Assigned To"
    IN [columns |-> left.columns \o brought,
        index |-> [k \in 1..Len(pairs) |-> k],
        rows |-> [k \in 1..Len(pairs) |->
                    [c \in Cols(left) \cup Range(brought) |->
                        IF c \in Cols(left) THEN left.rows[pairs[k][1]][c]
                        ELSE IF pairs[k][2] = 0 THEN NaN
                        ELSE right.rows[pairs[k][2]][From(c)]]]]

Approved == <<"a", "p", "p", "r", "o", "v", "e", "d">>
New == Str(<<"N", "e", "w">>)
Hold == Str(<<"H", "o", "l", "d">>)

\* determine_final_output_details that does not fetch 'Assigned To'
determine_without_assignee(row) ==
    IF isna(row["Status_central"]) THEN <<New, NaN>>
    ELSE IF isinstance_str(row["Status_central"])
            /\ lower(row["Status_central"].s) = Approved
         THEN <<NaN, NaN>>
         ELSE <<Hold, NaN>>

\* determine_final_output_details(row): <<final_status, final_assigned_to>>
determine_final_output_details(row) ==
    IF isna(row["Status_central"]) THEN <<New, NaN>>
    ELSE IF isinstance_str(row["Status_central"])
            /\ lower(row["Status_central"].s) = Approved
         THEN <<NaN, NaN>>
         ELSE <<Hold, row["Assigned To_central"]>>

\* lines 126-136 on a merged frame that has rows
Classify(df) ==
    LET details == [k \in 1..NRows(df) |-> determine_final_output_details(df.rows[k])]
        applied ==
            SetColumn(
                SetColumn(df, "final_status", [k \in 1..NRows(df) |-> details[k][1]]),
                "final_assigned_to", [k \in 1..NRows(df) |-> details[k][2]])
        kept == KeepRows(applied, [k \in 1..NRows(applied) |->
                                      notna(applied.rows[k]["final_status"])])
    IN SetColumn(
           SetColumn(kept, "Status",
                     [k \in 1..NRows(kept) |-> kept.rows[k]["final_status"]]),
           "Assigned To",
           [k \in 1..NRows(kept) |-> kept.rows[k]["final_assigned_to"]])

\* lines 149-163
Project(df) ==
    LET formatted ==
            IF "Valid From_dt" \in Cols(df)
            THEN SetColumn(df, "Valid From",
                           [k \in 1..NRows(df) |->
                               Str(strftime_display(df.rows[k]["Valid From_dt"]))])
            ELSE df
    IN SelectColumns(DropColumns(formatted, columns_to_drop_after_status_calc),
                     output_required_cols)

NoResponse == [kind |-> "none", flash |-> "none"]
Redirect(msg) == [kind |-> "redirect", flash |-> msg]
SendFile == [kind |-> "file", flash |-> "success"]

\* lines 61-71
FilterPmd ==
    /\ pc = "filter"
    /\ pmd_df' = CountryFilter(DropColumns(pmd_df, cols_to_drop))
    /\ pc' = "check"
    /\ UNCHANGED <<central_file, pmd_lookup_file, central_df, merged_df,
                   left_index, right_index, final_output_df, response>>

\* lines 73-83
RequiredColumnsCheck ==
    /\ pc = "check"
    /\ IF ~HasColumns(central_df, required_central_cols_for_check)
       THEN response' = Redirect("central_missing") /\ pc' = "done"
       ELSE IF ~HasColumns(pmd_df, required_pmd_cols_for_check)
            THEN response' = Redirect("pmd_missing") /\ pc' = "done"
            ELSE response' = response /\ pc' = "normalize"
    /\ UNCHANGED <<central_file, pmd_lookup_file, central_df, pmd_df, merged_df,
                   left_index, right_index, final_output_df>>

\* lines 85-96.  A column that is not there raises KeyError, which the handler
\* at lines 179-182 turns into a redirect.
Normalize ==
    /\ pc = "normalize"
    /\ IF /\ {"Valid From", "Supplier Name", "Status", "Assigned To"} \subseteq Cols(central_df)
          /\ {"Valid From", "Supplier Name"} \subseteq Cols(pmd_df)
       THEN /\ central_df' = NormalizeCentral(central_df)
            /\ pmd_df' = NormalizePmd(pmd_df)
            /\ pc' = "merge"
            /\ UNCHANGED response
       ELSE /\ response' = Redirect("key_error")
            /\ pc' = "done"
            /\ UNCHANGED <<central_df, pmd_df>>
    /\ UNCHANGED <<central_file, pmd_lookup_file, merged_df, left_index,
                   right_index, final_output_df>>

\* lines 102-106
MergeStep ==
    /\ pc = "merge"
    /\ LET pairs == MergePairs(pmd_df, central_df)
       IN /\ merged_df' = Merge(pmd_df, central_df)
          /\ left_index' = [k \in 1..Len(pairs) |-> pmd_df.index[pairs[k][1]]]
          /\ right_index' = [k \in 1..Len(pairs) |->
                                IF pairs[k][2] = 0 THEN 0
                                ELSE central_df.index[pairs[k][2]]]
    /\ pc' = "classify"
    /\ UNCHANGED <<central_file, pmd_lookup_file, central_df, pmd_df,
                   final_output_df, response>>

\* lines 110-137.  On a merged frame without rows DataFrame.apply(...,
\* result_type='expand') returns a copy of the frame itself, and assigning its
\* columns to the two-name key raises ValueError ("Columns must be same length
\* as key"), which the handler at lines 187-190 turns into a redirect.
ClassifyStep ==
    /\ pc = "classify"
    /\ IF NRows(merged_df) = 0
       THEN /\ response' = Redirect("unexpected_error")
            /\ pc' = "done"
            /\ UNCHANGED final_output_df
       ELSE /\ final_output_df' = Classify(merged_df)
            /\ pc' = "project"
            /\ UNCHANGED response
    /\ UNCHANGED <<central_file, pmd_lookup_file, central_df, pmd_df, merged_df,
                   left_index, right_index>>

\* lines 139-176
ProjectStep ==
    /\ pc = "project"
    /\ final_output_df' = Project(final_output_df)
    /\ response' = SendFile
    /\ pc' = "done"
    /\ UNCHANGED <<central_file, pmd_lookup_file, central_df, pmd_df, merged_df,
                   left_index, right_index>>

Next ==
    \/ FilterPmd
    \/ RequiredColumnsCheck
    \/ Normalize
    \/ MergeStep
    \/ ClassifyStep
    \/ ProjectStep

(***************************************************************************)
(* The uploads the model reads.                                            *)
(*   DataUploads:  the standard columns, up to MaxCentralRows and          *)
(*                 MaxPmdRows rows, at most one missing value in a row;    *)
(*   KeyUploads:   one row each, over differing dates, times and spellings *)
(*                 of the supplier name;                                   *)
(*   ShapeUploads: one or no row each, over differing column lists.        *)
(***************************************************************************)
\* a frame as read: the rows are labelled 1..n (pandas labels them from 0; the
\* label 0 is kept here for "no partner" in right_index)
Frame(columns, rows) ==
    [columns |-> columns, index |-> [k \in 1..Len(rows) |-> k], rows |-> rows]

SeqsUpTo(S, n) == UNION {[1..k -> S] : k \in 0..n}

Missing(row) == Cardinality({c \in DOMAIN row : isna(row[c])})

CentralColumns == <<"Valid From", "Supplier Name", "Status", "Assigned To">>
PmdColumns == <<"Valid From", "Supplier Name", "Country">>

CentralRow(v, n, s, a) ==
    ("Valid From" :> v) @@ ("Supplier Name" :> n) @@ ("Status" :> s)
        @@ ("Assigned To" :> a)
PmdRow(v, n, c) ==
    ("Valid From" :> v) @@ ("Supplier Name" :> n) @@ ("Country" :> c)

Acme == Str(<<"A", "c">>)
AcmeLeading == Str(<<" ", "A", "c">>)
AcmeTrailing == Str(<<"A", "c", " ">>)
AcmeLower == Str(<<"a", "c">>)
StatusApproved == Str(<<"A", "p", "p", "r", "o", "v", "e", "d">>)
StatusUpper == Str(<<"A", "P", "P", "R", "O", "V", "E", "D">>)
StatusPending == Str(<<"P", "e", "n", "d", "i", "n", "g">>)
Alice == Str(<<"A", "l", "i", "c", "e">>)
US == Str(<<"U", "S">>)
CN == Str(<<"C", "N">>)
Other == Str(<<"x">>)

CentralRows ==
    {r \in {CentralRow(v, n, s, a) :
                v \in {Ts(1, 0), NaN}, n \in {Acme, NaN},
                s \in {StatusApproved, StatusPending, NaN}, a \in {Alice, NaN}} :
        Missing(r) <= 1}

PmdRows ==
    {r \in {PmdRow(v, n, c) :
                v \in {Ts(1, 15), NaN}, n \in {Acme, NaN}, c \in {US, CN}} :
        Missing(r) <= 1}

DataUploads ==
    {<<Frame(CentralColumns, cr), Frame(PmdColumns, pr)>> :
        cr \in SeqsUpTo(CentralRows, MaxCentralRows),
        pr \in SeqsUpTo(PmdRows, MaxPmdRows)}

KeyUploads ==
    {<<Frame(CentralColumns, <<CentralRow(Ts(1, 0), cn, s, Alice)>>),
       Frame(PmdColumns, <<PmdRow(v, pn, US)>>)>> :
        cn \in {Acme, AcmeLeading},
        s \in {StatusApproved, StatusUpper, StatusPending},
        v \in {Ts(1, 0), Ts(1, 15), Ts(2, 0)},
        pn \in {Acme, AcmeLeading, AcmeTrailing, AcmeLower}}

CentralColumnLists ==
    {CentralColumns,
     <<"Remarks", "Assigned To", "Status", "Supplier Name", "Valid From">>,
     <<"Valid From", "Supplier Name", "Status">>,
     <<"Valid From", "Supplier Name", "Assigned To">>,
     <<"Valid From", "Status", "Assigned To">>,
     <<"Supplier Name", "Status", "Assigned To">>}

PmdColumnLists ==
    {PmdColumns,
     <<"Country", "Supplier Name", "Valid From">>,
     <<"Sl. No.", "Supplier Name", "DUNS", "Zip Code", "Status", "City",
       "Remarks", "Valid From">>,
     <<"Supplier Name", "Country">>,
     <<"Valid From", "City">>}

Sample(c) ==
    CASE c = "Valid From" -> Ts(1, 0)
      [] c = "Supplier Name" -> Acme
      [] c = "Status" -> StatusPending
      [] c = "Assigned To" -> Alice
      [] c = "Country" -> US
      [] OTHER -> Other

SampleRow(columns) == [c \in Range(columns) |-> Sample(c)]

ShapeUploads ==
    UNION {{<<Frame(cc, cr), Frame(pcols, pr)>> :
               cr \in {<<>>, <<SampleRow(cc)>>},
               pr \in {<<>>, <<SampleRow(pcols)>>}} :
           cc \in CentralColumnLists, pcols \in PmdColumnLists}

Uploads == DataUploads \cup KeyUploads \cup ShapeUploads

\* lines 56-57: both files read
Init ==
    /\ \E u \in Uploads :
          /\ central_file = u[1]
          /\ pmd_lookup_file = u[2]
          /\ central_df = u[1]
          /\ pmd_df = u[2]
    /\ merged_df = NoFrame
    /\ left_index = <<>>
    /\ right_index = <<>>
    /\ final_output_df = NoFrame
    /\ response = NoResponse
    /\ pc = "filter"

Spec == Init /\ [][Next]_vars

(***************************************************************************)
(* Vocabulary of the properties.                                           *)
(***************************************************************************)
Ended == pc = "done"
Produced == pc = "done" /\ response.kind = "file"
\* both column checks passed, so the frames are normalised and merged
ChecksPassed == response.flash \in {"success", "unexpected_error"}
Merged == pc \in {"classify", "project"} \/ (pc = "done" /\ ChecksPassed)

IsApproved(v) == v.t = "str" /\ lower(v.s) = <<"a", "p", "p", "r", "o", "v", "e", "d">>

\* positions of the output rows that derive from the candidate row labelled i
OutputFrom(i) ==
    {k \in 1..NRows(final_output_df) : left_index[final_output_df.index[k]] = i}

\* the merge paired the candidate row labelled i with the reference row labelled j
Joined(i, j) ==
    \E k \in 1..Len(left_index) : left_index[k] = i /\ right_index[k] = j

\* a row of the uploaded Central table that has a composite key
RefHasKey(r) == notna(to_datetime(r["Valid From"])) /\ notna(r["Supplier Name"])
RefKey(r) == comp_key(to_datetime(r["Valid From"]), r["Supplier Name"])

\* a country cell that names a country of the exclusion list
Excluded(v) == v.t = "str" /\ v.s \in countries_to_exclude

\* a row of the uploaded PMD table that passes the country filter and dropna
Survives(r) ==
    /\ "Country" \in DOMAIN r => ~Excluded(r["Country"])
    /\ notna(to_datetime(r["Valid From"]))
    /\ notna(r["Supplier Name"])

\* str.strip() of a sequence of characters
strip(s) ==
    LET solid == {i \in 1..Len(s) : s[i] # " "}
        first == CHOOSE i \in solid : \A j \in solid : i <= j
        last == CHOOSE i \in solid : \A j \in solid : j <= i
    IN IF solid = {} THEN <<>> ELSE SubSeq(s, first, last)

(***************************************************************************)
(* C1.  A candidate row whose composite key matches a reference row with   *)
(* status "approved" (ignoring case) has no output row derived from it,    *)
(* also when other reference rows with the same key are not approved.      *)
(***************************************************************************)
C1_ApprovedAbsent ==
    Produced =>
        \A i \in 1..NRows(pmd_df) :
            (\E j \in 1..NRows(central_df) :
                /\ central_df.rows[j]["comp_key"] = pmd_df.rows[i]["comp_key"]
                /\ IsApproved(central_df.rows[j]["Status"]))
            => OutputFrom(pmd_df.index[i]) = {}

(***************************************************************************)
(* C2.  The output has at most as many rows as there are candidate rows    *)
(* left after the country filter and normalisation.                        *)
(***************************************************************************)
C2_OutputCardinality ==
    Produced => NRows(final_output_df) <= NRows(pmd_df)

(***************************************************************************)
(* C3 as stated.  A candidate row whose key matches a reference row with a *)
(* present, non-approved status yields an output row with status Hold and  *)
(* that reference row's assignee, an empty one if the reference row has    *)
(* none.                                                                   *)
(***************************************************************************)
C3_HoldWithOptionalAssignee ==
    Produced =>
        \A i \in 1..NRows(pmd_df) : \A j \in 1..NRows(central_file) :
            LET r == central_file.rows[j] IN
            (/\ RefHasKey(r)
             /\ RefKey(r) = pmd_df.rows[i]["comp_key"]
             /\ notna(r["Status"])
             /\ ~IsApproved(r["Status"]))
            => \E k \in OutputFrom(pmd_df.index[i]) :
                  /\ final_output_df.rows[k]["Status"] = Hold
                  /\ final_output_df.rows[k]["Assigned To"] = r["Assigned To"]

(***************************************************************************)
(* C3 amended.  A candidate row whose key matches a reference row whose    *)
(* status and assignee are both present and whose status is not approved   *)
(* yields an output row with status Hold and that row's assignee; a        *)
(* reference row without an assignee is dropped before matching: it joins  *)
(* no candidate row, and every Hold row carries the assignee of the        *)
(* reference row it was joined with.                                       *)
(***************************************************************************)
C3_HoldWithAssignee ==
    Produced =>
        /\ \A i \in 1..NRows(pmd_df) : \A j \in 1..NRows(central_file) :
              LET r == central_file.rows[j] IN
              (/\ RefHasKey(r)
               /\ RefKey(r) = pmd_df.rows[i]["comp_key"]
               /\ notna(r["Status"])
               /\ ~IsApproved(r["Status"])
               /\ notna(r["Assigned To"]))
              => \E k \in OutputFrom(pmd_df.index[i]) :
                    /\ final_output_df.rows[k]["Status"] = Hold
                    /\ final_output_df.rows[k]["Assigned To"] = r["Assigned To"]
        /\ \A j \in 1..NRows(central_file) :
              isna(central_file.rows[j]["Assigned To"])
              => \A i \in 1..NRows(pmd_lookup_file) : ~Joined(i, j)
        /\ \A k \in 1..NRows(final_output_df) :
              final_output_df.rows[k]["Status"] = Hold
              => LET j == right_index[final_output_df.index[k]] IN
                 /\ j # 0
                 /\ notna(final_output_df.rows[k]["Assigned To"])
                 /\ final_output_df.rows[k]["Assigned To"]
                        = central_file.rows[j]["Assigned To"]

C3_Witness ==
    /\ Produced
    /\ \E k \in 1..NRows(final_output_df) :
          /\ final_output_df.rows[k]["Status"] = Hold
          /\ final_output_df.rows[k]["Assigned To"] = Alice
    /\ \E j \in 1..NRows(central_file) :
          /\ RefHasKey(central_file.rows[j])
          /\ central_file.rows[j]["Status"] = StatusPending
          /\ isna(central_file.rows[j]["Assigned To"])

(***************************************************************************)
(* C4.  A candidate row that survives the country filter and normalisation *)
(* and whose composite key is the key of no row of the normalised          *)
(* reference table is in the output, once, with status New and an empty    *)
(* assignee.                                                               *)
(***************************************************************************)
C4_UnmatchedIsNew ==
    (Ended /\ ChecksPassed) =>
        \A i \in 1..NRows(pmd_df) :
            (\A j \in 1..NRows(central_df) :
                central_df.rows[j]["comp_key"] # pmd_df.rows[i]["comp_key"])
            => /\ Produced
               /\ \E k \in 1..NRows(final_output_df) :
                     /\ OutputFrom(pmd_df.index[i]) = {k}
                     /\ final_output_df.rows[k]["Status"] = New
                     /\ isna(final_output_df.rows[k]["Assigned To"])
                     /\ final_output_df.rows[k]["Supplier Name"]
                            = pmd_df.rows[i]["Supplier Name"]

C4_Witness ==
    /\ Produced
    /\ NRows(central_df) > 0
    /\ \E i \in 1..NRows(pmd_df) :
          /\ \A j \in 1..NRows(central_df) :
                central_df.rows[j]["comp_key"] # pmd_df.rows[i]["comp_key"]
          /\ \E k \in OutputFrom(pmd_df.index[i]) :
                final_output_df.rows[k]["Status"] = New

(***************************************************************************)
(* C5 as stated.  A candidate row and a reference row match exactly when   *)
(* their valid-from values fall on the same calendar date and their        *)
(* supplier names are equal after trimming surrounding whitespace.         *)
(***************************************************************************)
C5_MatchIffTrimmedNamesEqual ==
    Merged =>
        \A i \in 1..NRows(pmd_df) : \A j \in 1..NRows(central_df) :
            Joined(pmd_df.index[i], central_df.index[j])
            <=> /\ pmd_df.rows[i]["Valid From_dt"].d = central_df.rows[j]["Valid From_dt"].d
                /\ strip(pmd_df.rows[i]["Supplier Name"].s)
                       = strip(central_df.rows[j]["Supplier Name"].s)

(***************************************************************************)
(* C5 amended.  A candidate row and a reference row match exactly when     *)
(* their valid-from values fall on the same calendar date and their        *)
(* supplier names are equal as given, character by character: names that  *)
(* differ by surrounding whitespace or by letter case do not match.        *)
(***************************************************************************)
C5_MatchIffSameDateSameName ==
    Merged =>
        \A i \in 1..NRows(pmd_df) : \A j \in 1..NRows(central_df) :
            Joined(pmd_df.index[i], central_df.index[j])
            <=> /\ pmd_df.rows[i]["Valid From_dt"].d = central_df.rows[j]["Valid From_dt"].d
                /\ pmd_df.rows[i]["Supplier Name"] = central_df.rows[j]["Supplier Name"]

C5_Witness ==
    /\ Merged
    /\ \E i \in 1..NRows(pmd_df) : \E j \in 1..NRows(central_df) :
          /\ Joined(pmd_df.index[i], central_df.index[j])
          /\ pmd_df.rows[i]["Valid From_dt"].h # central_df.rows[j]["Valid From_dt"].h
          /\ pmd_df.rows[i]["Supplier Name"] = AcmeLeading

(***************************************************************************)
(* C6.  No row of the table being built derives from a candidate row whose *)
(* country is in the exclusion set; with no Country column the filter      *)
(* removes no row.                                                         *)
(***************************************************************************)
C6_ExcludedCountryAbsent ==
    /\ "Country" \in Cols(pmd_lookup_file) =>
          /\ \A k \in 1..Len(left_index) :
                ~Excluded(pmd_lookup_file.rows[left_index[k]]["Country"])
          /\ \A k \in 1..NRows(final_output_df) :
                /\ ~Excluded(pmd_lookup_file.rows[left_index[final_output_df.index[k]]]["Country"])
                /\ "Country" \in Cols(final_output_df)
                       => ~Excluded(final_output_df.rows[k]["Country"])
    /\ ("Country" \notin Cols(pmd_lookup_file) /\ pc = "check") =>
          /\ pmd_df.index = pmd_lookup_file.index
          /\ NRows(pmd_df) = NRows(pmd_lookup_file)

C6_Witness ==
    /\ Produced
    /\ NRows(final_output_df) > 0
    /\ \E i \in 1..NRows(pmd_lookup_file) :
          /\ pmd_lookup_file.rows[i]["Country"] = CN
          /\ notna(pmd_lookup_file.rows[i]["Valid From"])
          /\ notna(pmd_lookup_file.rows[i]["Supplier Name"])

(***************************************************************************)
(* C7 as stated.  A reference table with the valid-from, supplier-name and *)
(* status columns but no assignee column is accepted: with a candidate row *)
(* that survives, the invocation produces a result table.                  *)
(***************************************************************************)
C7_AssigneeOptional ==
    (/\ Ended
     /\ {"Valid From", "Supplier Name", "Status"} \subseteq Cols(central_file)
     /\ "Assigned To" \notin Cols(central_file)
     /\ {"Valid From", "Supplier Name"} \subseteq Cols(pmd_lookup_file)
     /\ \E i \in 1..NRows(pmd_lookup_file) : Survives(pmd_lookup_file.rows[i]))
    => response.kind = "file"

(***************************************************************************)
(* C7 amended.  A reference table without an assignee column is rejected:  *)
(* the invocation ends in the missing-column failure of the Central file   *)
(* and produces no result table.                                           *)
(***************************************************************************)
C7_AssigneeRequired ==
    (Ended /\ "Assigned To" \notin Cols(central_file))
    => /\ response = Redirect("central_missing")
       /\ merged_df = NoFrame
       /\ final_output_df = NoFrame

C7_Witness ==
    /\ Ended
    /\ {"Valid From", "Supplier Name", "Status"} \subseteq Cols(central_file)
    /\ "Assigned To" \notin Cols(central_file)
    /\ {"Valid From", "Supplier Name"} \subseteq Cols(pmd_lookup_file)
    /\ \E i \in 1..NRows(pmd_lookup_file) : Survives(pmd_lookup_file.rows[i])
    /\ response = Redirect("central_missing")

(***************************************************************************)
(* C8.  When no candidate row is left after the country filter and         *)
(* normalisation, the invocation ends with a valid empty output table.     *)
(***************************************************************************)
C8_EmptyIsValidResult ==
    (Ended /\ ChecksPassed /\ NRows(pmd_df) = 0)
    => /\ response.kind = "file"
       /\ NRows(final_output_df) = 0

(***************************************************************************)
(* C9 as stated.  When the reference table lacks the status column, or     *)
(* either table lacks the valid-from or supplier-name column, nothing is   *)
(* merged or classified, no output table is produced and the invocation    *)
(* ends in a missing-column failure that names a table lacking one of      *)
(* these columns.                                                          *)
(***************************************************************************)
CentralLacks ==
    ~({"Valid From", "Supplier Name", "Status"} \subseteq Cols(central_file))
PmdLacks == ~({"Valid From", "Supplier Name"} \subseteq Cols(pmd_lookup_file))

C9_FailureNamesAffectedTable ==
    (CentralLacks \/ PmdLacks) =>
        /\ pc \in {"filter", "check", "done"}
        /\ merged_df = NoFrame
        /\ final_output_df = NoFrame
        /\ Ended =>
              /\ response.kind = "redirect"
              /\ \/ response.flash = "central_missing" /\ CentralLacks
                 \/ response.flash = "pmd_missing" /\ PmdLacks

(***************************************************************************)
(* C9 amended.  Under the same condition nothing is merged or classified,  *)
(* no output table is produced and the invocation ends in a missing-column *)
(* failure; the failure names the Central file whenever the Central table  *)
(* lacks any of valid-from, supplier-name, status or assignee, and names   *)
(* the PMD file only when the Central table has all four.                  *)
(***************************************************************************)
C9_MissingColumnFailure ==
    (CentralLacks \/ PmdLacks) =>
        /\ pc \in {"filter", "check", "done"}
        /\ merged_df = NoFrame
        /\ final_output_df = NoFrame
        /\ Ended =>
              /\ response.kind = "redirect"
              /\ response.flash =
                    IF CentralLacks \/ "Assigned To" \notin Cols(central_file)
                    THEN "central_missing" ELSE "pmd_missing"

C9_Witness ==
    /\ Ended
    /\ ~CentralLacks
    /\ "Assigned To" \in Cols(central_file)
    /\ PmdLacks
    /\ NRows(pmd_lookup_file) > 0
    /\ response = Redirect("pmd_missing")

(***************************************************************************)
(* C10.  The columns of the output are the configured list restricted to   *)
(* the columns available in the classified rows (those of the candidate    *)
(* table without the administrative ones, plus Status and Assigned To), in *)
(* the order of the list, whatever the order of the input columns; no      *)
(* helper column and no column outside the list is in the output.          *)
(***************************************************************************)
C10_OutputColumns ==
    Produced =>
        LET available ==
                (Cols(pmd_lookup_file) \ {"Sl. No.", "DUNS"}) \cup {"Status", "Assigned To"}
            out == final_output_df.columns
        IN /\ out = SelectSeq(output_required_cols, LAMBDA c : c \in available)
           /\ \A a, b \in 1..Len(out) :
                 a < b =>
                    \E x, y \in 1..Len(output_required_cols) :
                        /\ x < y
                        /\ output_required_cols[x] = out[a]
                        /\ output_required_cols[y] = out[b]
           /\ \A c \in Range(out) :
                 c \notin {"comp_key", "Valid From_dt", "Status_central",
                           "Assigned To_central", "final_status",
                           "final_assigned_to", "Remarks"}
           /\ \A k \in 1..NRows(final_output_df) :
                 DOMAIN final_output_df.rows[k] = Range(out)

C10_Witness ==
    /\ Produced
    /\ NRows(final_output_df) > 0
    /\ "Remarks" \in Cols(pmd_lookup_file)
    /\ pmd_lookup_file.columns[1] # "Valid From"
    /\ Len(final_output_df.columns) > 4

====
